---- MODULE Spec2Model ----
(***************************************************************************)
(* Bot session orchestrator (app/services/bot_service.py), live session    *)
(* bus (app/services/live_transcription_service.py) and streaming ingest   *)
(* client (app/services/rtms_client.py) of tech0notta, with the request    *)
(* handlers that drive them.  Everything runs on one asyncio event loop:   *)
(* a step of the model is the code a coroutine runs between two            *)
(* suspension points (await of I/O, of a subprocess, of a sleep, of        *)
(* another task).                                                          *)
(***************************************************************************)
EXTENDS Integers, Sequences, FiniteSets, Bags, TLC

(* ------------------------------ bounds -------------------------------- *)
\* bot sessions dispatched in one run
MaxBots == 2
\* transcript segments appended in one run (uuid4 draws)
MaxSegs == 3
\* transcript frames forwarded to the bus in one run
MaxFrames == 2
\* RTMSSession objects constructed in one run
MaxStreams == 2
\* start_session / stop_session calls suspended at once
MaxCalls == 1

(* --------------------------- value domains ---------------------------- *)
\* Python's None where a string is expected
None == "None"
\* None for a segment id (segment ids are modelled by their draw number)
NoId == 0

MeetingIds == {"111", "222"}
\* meetings whose real-time stream is ingested
RtmsMeetingIds == {"111"}
\* uuid4 of the n-th dispatched bot session
BotIdNames == <<"b1", "b2", "b3", "b4">>
\* session ids a worker or a client uses on the live API besides bot ids
FreeSessionIds == {"s1", "s2"}
\* the session the polling consumer reads
PolledSession == "s1"
Speakers == {"Guest-1"}
SpeakerIds == {"", "spk-1"}
MappedNames == {"Alice"}
Topics == {"", "Topic"}
\* limit of GET /api/live/segments: Query(100, ge=1, le=500)
Limits == {1, 2, 100}

\* enum BotStatus
PENDING == "pending"
JOINING == "joining"
IN_MEETING == "in_meeting"
RECORDING == "recording"
LEAVING == "leaving"
COMPLETED == "completed"
ERROR == "error"
TerminalStatuses == {COMPLETED, ERROR}

\* SPEAKER_COLORS
SPEAKER_COLORS == <<"bg-blue-100 text-blue-700", "bg-emerald-100 text-emerald-700",
                    "bg-purple-100 text-purple-700", "bg-amber-100 text-amber-700",
                    "bg-rose-100 text-rose-700", "bg-cyan-100 text-cyan-700">>

VARIABLES
    \* LiveTranscriptionService: [sessions: id -> LiveSession, speaker_colors: id -> (key -> color)]
    live_transcription_service,
    \* number of segment uuids drawn so far
    uuid_count,
    \* BotService._sessions: id -> BotSession
    bot_sessions,
    \* position of the _run_bot task of each session ("none": no task was created)
    run_bot,
    \* docker containers started for each session: "none", "running", "stopped"
    containers,
    \* outcome of the last terminate_bot call on each session that returned True
    terminated,
    \* per meeting: terminate_sessions_by_meeting_id calls since the last dispatch (capped at 2)
    \* and the count the last call returned
    tbm_calls,
    tbm_last,
    \* a dispatch was issued through POST /api/bot/dispatch
    direct_dispatch,
    \* the polling consumer of PolledSession: ids, the ids of the segments it received in
    \* order of receipt, and last_count, the size of the last non-empty response
    received,
    \* RTMSManager._sessions: meeting id -> RTMSSession object (index into streams), 0 when absent
    rtms_sessions,
    \* every RTMSSession object constructed so far, with its _run_session task
    streams,
    \* the start_session / stop_session calls that are suspended (a bag of Call records)
    calls,
    \* per meeting: the registered RTMSSession was created by a start call, and no
    \* other start or stop call for the meeting was in flight then or issued since
    undisturbed

vars == <<live_transcription_service, uuid_count, bot_sessions, run_bot, containers,
          terminated, tbm_calls, tbm_last, direct_dispatch, received,
          rtms_sessions, streams, calls, undisturbed>>

botVars == <<bot_sessions, run_bot, containers, terminated, tbm_calls, tbm_last, direct_dispatch>>

rtmsVars == <<rtms_sessions, streams, calls, undisturbed>>

(* ------------------------------ helpers ------------------------------- *)
Min(a, b) == IF a < b THEN a ELSE b

\* s[:2] for the names of the model
Prefix2(s) ==
    CASE s = "Guest-1" -> "Gu"
      [] s = "Bob" -> "Bo"
      [] s = "Alice" -> "Al"
      [] OTHER -> s

\* seq[n:] (0-based start)
SliceFrom(seq, n) == SubSeq(seq, n + 1, Len(seq))

\* seq[-n:] for 1 <= n
LastN(seq, n) == SubSeq(seq, Len(seq) - Min(n, Len(seq)) + 1, Len(seq))

SeqIds(segments) == [i \in 1..Len(segments) |-> segments[i].id]

(* -------------------- LiveTranscriptionService ------------------------ *)
DefaultTopic(meeting_id) == "meeting " \o meeting_id

\* create_session: builds a new LiveSession and stores it under session_id,
\* whatever was stored there before
create_session(svc, session_id, meeting_id, meeting_topic) ==
    LET session == [session_id |-> session_id,
                    meeting_id |-> meeting_id,
                    meeting_topic |-> IF meeting_topic # "" THEN meeting_topic
                                      ELSE DefaultTopic(meeting_id),
                    segments |-> <<>>,
                    participant_count |-> 0,
                    speaker_mapping |-> << >>]
    IN  [sessions |-> [k \in DOMAIN svc.sessions \cup {session_id} |->
                          IF k = session_id THEN session ELSE svc.sessions[k]],
         speaker_colors |-> [k \in DOMAIN svc.speaker_colors \cup {session_id} |->
                          IF k = session_id THEN << >> ELSE svc.speaker_colors[k]]]

\* _get_speaker_color: the colour table of the session after the lookup
speaker_colors_after(svc, session_id, speaker) ==
    LET colors == IF session_id \in DOMAIN svc.speaker_colors
                  THEN svc.speaker_colors[session_id] ELSE << >>
    IN  IF speaker \in DOMAIN colors THEN colors
        ELSE [k \in DOMAIN colors \cup {speaker} |->
                 IF k = speaker
                 THEN SPEAKER_COLORS[(Cardinality(DOMAIN colors) % Len(SPEAKER_COLORS)) + 1]
                 ELSE colors[k]]

\* an add_segment that looks up the colour before it looks for the session
add_segment_colour_first(svc, uuid, session_id, speaker, text, time_str, speaker_id) ==
    LET key == IF speaker_id # "" THEN speaker_id ELSE speaker
        colors == speaker_colors_after(svc, session_id, key)
        coloured == [sessions |-> svc.sessions,
                     speaker_colors |-> [k \in DOMAIN svc.speaker_colors \cup {session_id} |->
                                            IF k = session_id THEN colors
                                            ELSE svc.speaker_colors[k]]]
    IN  IF session_id \notin DOMAIN svc.sessions THEN coloured
        ELSE
        LET session == svc.sessions[session_id]
            display_speaker == IF speaker_id # "" /\ speaker_id \in DOMAIN session.speaker_mapping
                                  /\ session.speaker_mapping[speaker_id] # ""
                               THEN session.speaker_mapping[speaker_id] ELSE speaker
            segment == [id |-> uuid, speaker |-> display_speaker, speaker_id |-> speaker_id,
                        text |-> text,
                        time |-> IF time_str # None /\ time_str # "" THEN time_str ELSE "now",
                        initials |-> Prefix2(display_speaker), color_class |-> colors[key]]
        IN  [coloured EXCEPT !.sessions[session_id].segments = Append(@, segment)]

\* what add_segment returns: the segment, or None when the session is unknown
add_segment_returns(svc, session_id) ==
    IF session_id \in DOMAIN svc.sessions THEN "segment" ELSE None

\* an add_segment that stores the new segment over the last one it read
add_segment_over_last(svc, uuid, session_id, speaker, text, time_str, speaker_id) ==
    IF session_id \notin DOMAIN svc.sessions THEN svc
    ELSE
    LET session == svc.sessions[session_id]
        key == IF speaker_id # "" THEN speaker_id ELSE speaker
        colors == speaker_colors_after(svc, session_id, key)
        segment == [id |-> uuid, speaker |-> speaker, speaker_id |-> speaker_id,
                    text |-> text,
                    time |-> IF time_str # None /\ time_str # "" THEN time_str ELSE "now",
                    initials |-> Prefix2(speaker), color_class |-> colors[key]]
        n == Len(session.segments)
    IN  [sessions |-> [svc.sessions EXCEPT ![session_id].segments =
                           IF n = 0 THEN <<segment>> ELSE [@ EXCEPT ![n] = segment]],
         speaker_colors |-> [k \in DOMAIN svc.speaker_colors \cup {session_id} |->
                                IF k = session_id THEN colors ELSE svc.speaker_colors[k]]]

\* add_segment: the service after the call (unchanged when the session is unknown)
add_segment(svc, uuid, session_id, speaker, text, time_str, speaker_id) ==
    IF session_id \notin DOMAIN svc.sessions THEN svc
    ELSE
    LET session == svc.sessions[session_id]
        display_speaker == IF speaker_id # "" /\ speaker_id \in DOMAIN session.speaker_mapping
                              /\ session.speaker_mapping[speaker_id] # ""
                           THEN session.speaker_mapping[speaker_id] ELSE speaker
        key == IF speaker_id # "" THEN speaker_id ELSE speaker
        colors == speaker_colors_after(svc, session_id, key)
        segment == [id |-> uuid,
                    speaker |-> display_speaker,
                    speaker_id |-> speaker_id,
                    text |-> text,
                    time |-> IF time_str # None /\ time_str # "" THEN time_str ELSE "now",
                    initials |-> Prefix2(display_speaker),
                    color_class |-> colors[key]]
    IN  [sessions |-> [svc.sessions EXCEPT ![session_id].segments = Append(@, segment)],
         speaker_colors |-> [k \in DOMAIN svc.speaker_colors \cup {session_id} |->
                                IF k = session_id THEN colors ELSE svc.speaker_colors[k]]]

\* index (0-based) of the first segment whose id is since_id, -1 if there is none
found_index(segments, since_id) ==
    IF \E i \in 1..Len(segments) : segments[i].id = since_id
    THEN (CHOOSE i \in 1..Len(segments) :
            /\ segments[i].id = since_id
            /\ \A j \in 1..(i - 1) : segments[j].id # since_id) - 1
    ELSE -1

\* a cursor slice that starts at the segment of the cursor: segments[found_index:]
since_slice_from_cursor(segments, found) == SliceFrom(segments, found)

\* the cursor slice of get_segments: segments[found_index + 1:]
since_slice(segments, found) == SliceFrom(segments, found + 1)

\* the limit of get_segments: segments[-limit:] if len(segments) > limit else segments
apply_limit(segments, limit) ==
    IF Len(segments) > limit THEN LastN(segments, limit) ELSE segments

get_segments(svc, session_id, since_id, limit) ==
    IF session_id \notin DOMAIN svc.sessions THEN <<>>
    ELSE
    LET all == svc.sessions[session_id].segments
        found == IF since_id # NoId THEN found_index(all, since_id) ELSE -1
        segments == IF since_id # NoId /\ found >= 0 THEN since_slice(all, found) ELSE all
    IN  apply_limit(segments, limit)

update_participant_count(svc, session_id, count) ==
    IF session_id \in DOMAIN svc.sessions
    THEN [svc EXCEPT !.sessions[session_id].participant_count = count]
    ELSE svc

\* a clear that deletes the session and keeps its colour table
clear_session_keeping_colours(svc, session_id) ==
    IF session_id \in DOMAIN svc.sessions
    THEN [sessions |-> [k \in DOMAIN svc.sessions \ {session_id} |-> svc.sessions[k]],
          speaker_colors |-> svc.speaker_colors]
    ELSE svc

\* the value clear_session returns
clear_session_returns(svc, session_id) == session_id \in DOMAIN svc.sessions

clear_session(svc, session_id) ==
    IF session_id \in DOMAIN svc.sessions
    THEN [sessions |-> [k \in DOMAIN svc.sessions \ {session_id} |-> svc.sessions[k]],
          speaker_colors |-> [k \in DOMAIN svc.speaker_colors \ {session_id} |->
                                 svc.speaker_colors[k]]]
    ELSE svc

\* a remapping that rewrites the display name and leaves the initials
set_speaker_mapping_names_only(svc, session_id, mapping) ==
    IF session_id \notin DOMAIN svc.sessions THEN svc
    ELSE
    LET rewrite(segment) ==
            IF segment.speaker_id # "" /\ segment.speaker_id \in DOMAIN mapping
            THEN [segment EXCEPT !.speaker = mapping[segment.speaker_id]]
            ELSE segment
        old == svc.sessions[session_id].segments
    IN  [svc EXCEPT !.sessions[session_id].speaker_mapping = mapping,
                    !.sessions[session_id].segments = [i \in 1..Len(old) |-> rewrite(old[i])]]

\* the value set_speaker_mapping returns
set_speaker_mapping_returns(svc, session_id) == session_id \in DOMAIN svc.sessions

set_speaker_mapping(svc, session_id, mapping) ==
    IF session_id \notin DOMAIN svc.sessions THEN svc
    ELSE
    LET rewrite(segment) ==
            IF segment.speaker_id # "" /\ segment.speaker_id \in DOMAIN mapping
            THEN [segment EXCEPT !.speaker = mapping[segment.speaker_id],
                                 !.initials = Prefix2(mapping[segment.speaker_id])]
            ELSE segment
        old == svc.sessions[session_id].segments
    IN  [svc EXCEPT !.sessions[session_id].speaker_mapping = mapping,
                    !.sessions[session_id].segments = [i \in 1..Len(old) |-> rewrite(old[i])]]

(* ----------------------------- BotService ----------------------------- *)
BotIds == {BotIdNames[i] : i \in 1..MaxBots}

\* A meeting reference as _parse_meeting_url reads it:
\*   zoom    - "zoom.us" occurs in the string
\*   jdigits - the digits matched by /j/(\d+), "" when the pattern does not match
\*   pwd     - parse_qs(query)["pwd"][0], None when the query has no non-blank pwd
\*   digits  - all digit characters of the string, joined
BareId(m) == [zoom |-> FALSE, jdigits |-> "", pwd |-> None, digits |-> m]

_parse_meeting_url(url_or_id) ==
    IF url_or_id.zoom
    THEN [meeting_id |-> url_or_id.jdigits, password |-> url_or_id.pwd]
    ELSE [meeting_id |-> url_or_id.digits, password |-> None]

_extract_meeting_id(url_or_id) == _parse_meeting_url(url_or_id).meeting_id

get_sessions_by_meeting(url_or_id) ==
    {id \in DOMAIN bot_sessions : bot_sessions[id].meeting_id = _extract_meeting_id(url_or_id)}

get_active_sessions ==
    {id \in DOMAIN bot_sessions : bot_sessions[id].status \notin {COMPLETED, ERROR}}

\* password or extracted_password
final_password(password, extracted_password) ==
    IF password # None /\ password # "" THEN password ELSE extracted_password

\* what dispatch_bot hands its caller: the session, or the ValueError it raises
dispatch_bot_result(url_or_id, configured, jwt_ok) ==
    IF _parse_meeting_url(url_or_id).meeting_id = "" THEN "ValueError: meeting id"
    ELSE IF ~configured THEN "ValueError: sdk settings"
    ELSE IF ~jwt_ok THEN "ValueError: jwt"
    ELSE "session"

\* a dispatch that creates the launch task whether or not it got a token
dispatch_bot_launching_anyway(url_or_id, password, configured, jwt_ok) ==
    LET parsed == _parse_meeting_url(url_or_id)
        session_id == BotIdNames[Cardinality(DOMAIN bot_sessions) + 1]
        session == [id |-> session_id,
                    meeting_id |-> parsed.meeting_id,
                    meeting_password |-> final_password(password, parsed.password),
                    status |-> IF jwt_ok THEN PENDING ELSE ERROR,
                    container_id |-> None,
                    error_message |-> IF jwt_ok THEN None ELSE "jwt"]
    IN  IF parsed.meeting_id = "" \/ ~configured
        THEN UNCHANGED <<bot_sessions, run_bot, tbm_calls>>
        ELSE /\ bot_sessions' = [k \in DOMAIN bot_sessions \cup {session_id} |->
                                    IF k = session_id THEN session ELSE bot_sessions[k]]
             /\ run_bot' = [run_bot EXCEPT ![session_id] = "created"]
             /\ tbm_calls' = [m \in DOMAIN tbm_calls |->
                                 IF m = parsed.meeting_id THEN 0 ELSE tbm_calls[m]]

\* a dispatch that registers the session before it looks at the SDK settings
dispatch_bot_registering_first(url_or_id, password, configured, jwt_ok) ==
    LET parsed == _parse_meeting_url(url_or_id)
        session_id == BotIdNames[Cardinality(DOMAIN bot_sessions) + 1]
        session == [id |-> session_id,
                    meeting_id |-> parsed.meeting_id,
                    meeting_password |-> final_password(password, parsed.password),
                    status |-> IF configured /\ jwt_ok THEN PENDING ELSE ERROR,
                    container_id |-> None,
                    error_message |-> IF configured /\ jwt_ok THEN None ELSE "jwt"]
    IN  IF parsed.meeting_id = ""
        THEN UNCHANGED <<bot_sessions, run_bot, tbm_calls>>
        ELSE /\ bot_sessions' = [k \in DOMAIN bot_sessions \cup {session_id} |->
                                    IF k = session_id THEN session ELSE bot_sessions[k]]
             /\ run_bot' = [run_bot EXCEPT ![session_id] =
                                IF configured /\ jwt_ok THEN "created" ELSE "none"]
             /\ tbm_calls' = [m \in DOMAIN tbm_calls |->
                                 IF m = parsed.meeting_id THEN 0 ELSE tbm_calls[m]]

\* dispatch_bot: configured is sdk_jwt_service.is_configured(), jwt_ok is whether
\* generate_jwt returns a token.  A raise leaves the registry as the code left it.
dispatch_bot(url_or_id, password, configured, jwt_ok) ==
    LET parsed == _parse_meeting_url(url_or_id)
        session_id == BotIdNames[Cardinality(DOMAIN bot_sessions) + 1]
        session == [id |-> session_id,
                    meeting_id |-> parsed.meeting_id,
                    meeting_password |-> final_password(password, parsed.password),
                    status |-> IF jwt_ok THEN PENDING ELSE ERROR,
                    container_id |-> None,
                    error_message |-> IF jwt_ok THEN None ELSE "jwt"]
    IN  IF parsed.meeting_id = "" \/ ~configured
        THEN UNCHANGED <<bot_sessions, run_bot, tbm_calls>>
        ELSE /\ bot_sessions' = [k \in DOMAIN bot_sessions \cup {session_id} |->
                                    IF k = session_id THEN session ELSE bot_sessions[k]]
             /\ run_bot' = [run_bot EXCEPT ![session_id] = IF jwt_ok THEN "created" ELSE "none"]
             /\ tbm_calls' = [m \in DOMAIN tbm_calls |->
                                 IF m = parsed.meeting_id THEN 0 ELSE tbm_calls[m]]

\* a terminate that stops at the assignment of LEAVING
terminated_session_leaving(session) ==
    [session EXCEPT !.status = LEAVING]

\* a terminate that leaves a session in ERROR as it is
terminated_session_unless_error(session) ==
    IF session.status = ERROR THEN session ELSE [session EXCEPT !.status = COMPLETED]

\* the value BotService.terminate_bot returns
terminate_bot_returns(session_id) == session_id \in DOMAIN bot_sessions

\* terminate_bot on an existing session: the session record after the call
terminated_session(session) ==
    [session EXCEPT !.status = COMPLETED]

\* terminate_bot applied to every session of ids; stop_ok[id] is whether
\* "docker stop" stops the container.  The call does not suspend.
terminate_all(ids, stop_ok) ==
    /\ bot_sessions' = [k \in DOMAIN bot_sessions |->
                           IF k \in ids THEN terminated_session(bot_sessions[k])
                           ELSE bot_sessions[k]]
    /\ containers' = [k \in DOMAIN containers |->
                         IF k \in ids /\ bot_sessions[k].container_id # None
                            /\ containers[k] = "running" /\ stop_ok[k]
                         THEN "stopped" ELSE containers[k]]
    /\ terminated' = [k \in DOMAIN terminated |->
                         IF k \notin ids THEN terminated[k]
                         ELSE IF bot_sessions[k].container_id = None THEN "no_handle"
                         ELSE IF stop_ok[k] THEN "stopped" ELSE "stop_failed"]

(* ------------------------- bot request handlers ----------------------- *)
\* zoom_webhook.handle_meeting_started: after get_meeting_details returned
\* (details_ok: it returned details), the check for an active session and the
\* dispatch run without suspension; every exception is caught and logged.
handle_meeting_started(meeting_id, details_ok, password, configured, jwt_ok) ==
    /\ Cardinality(DOMAIN bot_sessions) < MaxBots
    /\ IF details_ok /\ get_sessions_by_meeting(BareId(meeting_id)) \cap get_active_sessions = {}
       THEN dispatch_bot(BareId(meeting_id), password, configured, jwt_ok)
       ELSE UNCHANGED <<bot_sessions, run_bot, tbm_calls>>
    /\ UNCHANGED <<containers, terminated, tbm_last, direct_dispatch>>
    /\ UNCHANGED <<live_transcription_service, uuid_count, received>>
    /\ UNCHANGED rtmsVars

\* bot_router.dispatch_bot (POST /api/bot/dispatch)
api_dispatch_bot(url_or_id, password, configured, jwt_ok) ==
    /\ Cardinality(DOMAIN bot_sessions) < MaxBots
    /\ dispatch_bot(url_or_id, password, configured, jwt_ok)
    /\ direct_dispatch' = (direct_dispatch \/ bot_sessions' # bot_sessions)
    /\ UNCHANGED <<containers, terminated, tbm_last>>
    /\ UNCHANGED <<live_transcription_service, uuid_count, received>>
    /\ UNCHANGED rtmsVars

\* bot_router.terminate_bot (POST /api/bot/{session_id}/terminate)
terminate_bot(session_id, stop_ok) ==
    /\ IF session_id \in DOMAIN bot_sessions
       THEN terminate_all({session_id}, stop_ok)
       ELSE UNCHANGED <<bot_sessions, containers, terminated>>
    /\ UNCHANGED <<run_bot, tbm_calls, tbm_last, direct_dispatch>>
    /\ UNCHANGED <<live_transcription_service, uuid_count, received>>
    /\ UNCHANGED rtmsVars

\* zoom_webhook.handle_meeting_ended -> terminate_sessions_by_meeting_id
terminate_sessions_by_meeting_id(meeting_id, stop_ok) ==
    LET sessions == get_sessions_by_meeting(BareId(meeting_id)) \cap get_active_sessions
        count == Cardinality(sessions)
    IN  /\ terminate_all(sessions, stop_ok)
        /\ tbm_last' = [tbm_last EXCEPT ![meeting_id] = count]
        /\ tbm_calls' = [tbm_calls EXCEPT ![meeting_id] = Min(@ + 1, 2)]
        /\ UNCHANGED <<run_bot, direct_dispatch>>
        /\ UNCHANGED <<live_transcription_service, uuid_count, received>>
        /\ UNCHANGED rtmsVars

(* ------------------------ the _run_bot task --------------------------- *)
\* first step: up to the await of asyncio.create_subprocess_exec
run_bot_start(id) ==
    /\ run_bot[id] = "created"
    /\ bot_sessions' = [bot_sessions EXCEPT ![id].status = JOINING]
    /\ live_transcription_service' =
           create_session(live_transcription_service, id, bot_sessions[id].meeting_id,
                          DefaultTopic(bot_sessions[id].meeting_id))
    /\ run_bot' = [run_bot EXCEPT ![id] = "exec"]
    /\ UNCHANGED <<containers, terminated, tbm_calls, tbm_last, direct_dispatch>>
    /\ UNCHANGED <<uuid_count, received>>
    /\ UNCHANGED rtmsVars

\* create_subprocess_exec returned (spawned) or raised: up to the await of communicate
run_bot_exec(id, spawned) ==
    /\ run_bot[id] = "exec"
    /\ IF spawned
       THEN /\ run_bot' = [run_bot EXCEPT ![id] = "communicate"]
            /\ UNCHANGED bot_sessions
       ELSE /\ run_bot' = [run_bot EXCEPT ![id] = "done"]
            /\ bot_sessions' = [bot_sessions EXCEPT ![id].status = ERROR,
                                                    ![id].error_message = "exception"]
    /\ UNCHANGED <<containers, terminated, tbm_calls, tbm_last, direct_dispatch>>
    /\ UNCHANGED <<live_transcription_service, uuid_count, received>>
    /\ UNCHANGED rtmsVars

\* a launch that records the error of a failed "docker run" and leaves its status
launched_session_error_unflagged(session, returncode) ==
    IF returncode = 0
    THEN [session EXCEPT !.container_id = "c-" \o session.id, !.status = IN_MEETING]
    ELSE [session EXCEPT !.error_message = "stderr"]

\* a launch that records the outcome of "docker run" in the status alone
launched_session_status_only(session, returncode) ==
    [session EXCEPT !.status = IF returncode = 0 THEN IN_MEETING ELSE ERROR]

\* a launch that records the container of a successful "docker run" and nothing
\* about a failed one
launched_session_or_silent(session, returncode) ==
    IF returncode = 0
    THEN [session EXCEPT !.container_id = "c-" \o session.id, !.status = IN_MEETING]
    ELSE session

\* the session record after "docker run" ended with the given return code
launched_session(session, returncode) ==
    IF returncode = 0
    THEN [session EXCEPT !.container_id = "c-" \o session.id, !.status = IN_MEETING]
    ELSE [session EXCEPT !.status = ERROR, !.error_message = "stderr"]

\* communicate returned: "docker run -d" ended with returncode
run_bot_communicate(id, returncode) ==
    /\ run_bot[id] = "communicate"
    /\ bot_sessions' = [bot_sessions EXCEPT ![id] = launched_session(@, returncode)]
    /\ containers' = [containers EXCEPT ![id] = IF returncode = 0 THEN "running" ELSE @]
    /\ run_bot' = [run_bot EXCEPT ![id] = "done"]
    /\ UNCHANGED <<terminated, tbm_calls, tbm_last, direct_dispatch>>
    /\ UNCHANGED <<live_transcription_service, uuid_count, received>>
    /\ UNCHANGED rtmsVars

(* ------------------------ live request handlers ----------------------- *)
\* the live session the routers find or create before they read or write it:
\* an unknown id is created from the bot session of that id; without one,
\* push_segment creates it for meeting "unknown" and get_segments answers 404
\* a find-or-create that creates the session whether or not the id is known
auto_created_afresh(svc, session_id, or_unknown) ==
    IF session_id \in DOMAIN bot_sessions
    THEN create_session(svc, session_id, bot_sessions[session_id].meeting_id,
                        DefaultTopic(bot_sessions[session_id].meeting_id))
    ELSE IF or_unknown THEN create_session(svc, session_id, "unknown", "unknown meeting")
    ELSE svc

auto_created(svc, session_id, or_unknown) ==
    IF session_id \in DOMAIN svc.sessions THEN svc
    ELSE IF session_id \in DOMAIN bot_sessions
    THEN create_session(svc, session_id, bot_sessions[session_id].meeting_id,
                        DefaultTopic(bot_sessions[session_id].meeting_id))
    ELSE IF or_unknown THEN create_session(svc, session_id, "unknown", "unknown meeting")
    ELSE svc

\* the cursor of the polling consumer: the id of the last segment it received
cursor == IF received.ids = <<>> THEN NoId ELSE received.ids[Len(received.ids)]

\* live_router.get_segments (GET /api/live/segments/{session_id}) called by the
\* polling consumer with since_id = cursor
poll_segments(limit) ==
    LET svc == auto_created(live_transcription_service, PolledSession, FALSE)
        segments == get_segments(svc, PolledSession, cursor, limit)
    IN  /\ live_transcription_service' = svc
        /\ received' = IF segments = <<>> THEN received
                        ELSE [ids |-> received.ids \o SeqIds(segments),
                              last_count |-> Len(segments)]
        /\ UNCHANGED uuid_count
        /\ UNCHANGED botVars
        /\ UNCHANGED rtmsVars

\* live_router.push_segment (POST /api/live/segments/{session_id}/push)
push_segment(session_id, speaker, text, time, speaker_id) ==
    /\ uuid_count < MaxSegs
    /\ uuid_count' = uuid_count + 1
    /\ live_transcription_service' =
           add_segment(auto_created(live_transcription_service, session_id, TRUE),
                       uuid_count + 1, session_id, speaker, text, time,
                       IF speaker_id = None THEN "" ELSE speaker_id)
    /\ UNCHANGED received
    /\ UNCHANGED botVars
    /\ UNCHANGED rtmsVars

\* live_router.init_session (POST /api/live/segments/{session_id}/init)
init_session(session_id, meeting_id, meeting_topic) ==
    /\ live_transcription_service' =
           IF session_id \in DOMAIN live_transcription_service.sessions
           THEN live_transcription_service
           ELSE create_session(live_transcription_service, session_id, meeting_id,
                               IF meeting_topic # "" THEN meeting_topic
                               ELSE DefaultTopic(meeting_id))
    /\ UNCHANGED <<uuid_count, received>>
    /\ UNCHANGED botVars
    /\ UNCHANGED rtmsVars

\* live_router.clear_session (DELETE /api/live/segments/{session_id})
api_clear_session(session_id) ==
    /\ live_transcription_service' = clear_session(live_transcription_service, session_id)
    /\ UNCHANGED <<uuid_count, received>>
    /\ UNCHANGED botVars
    /\ UNCHANGED rtmsVars

\* live_router.set_speaker_mapping (PUT /api/live/speakers/{session_id})
api_set_speaker_mapping(session_id, mapping) ==
    /\ live_transcription_service' =
           set_speaker_mapping(live_transcription_service, session_id, mapping)
    /\ UNCHANGED <<uuid_count, received>>
    /\ UNCHANGED botVars
    /\ UNCHANGED rtmsVars

(* ----------------------------- RTMSManager ---------------------------- *)
\* max_retries of _run_session
max_retries == 3

StreamUrls == {"", "wss://rtms"}

\* session_id = f"rtms-{meeting_id}"
rtms_session_id(meeting_id) == "rtms-" \o meeting_id

\* a suspended start_session / stop_session call: what it runs, where it waits
\* ("closing": in await session.websocket.close(), "await_task": in await
\* session.task) and its local variables
Call(op, pc, meeting_id, meeting_topic, session) ==
    [op |-> op, pc |-> pc, meeting_id |-> meeting_id, meeting_topic |-> meeting_topic,
     session |-> session]

\* asyncio.Task.done()
task_done(stream) == stream.task \in {"returned", "cancelled"}

\* RTMSSession(...) followed by asyncio.create_task(self._run_session(session)).
\* retry_count is the local variable of the task; stopped records that a
\* stop_session call for the meeting, begun after the task was created, has
\* returned while the task was alive.
new_stream(meeting_id, meeting_topic) ==
    [meeting_id |-> meeting_id, meeting_topic |-> meeting_topic,
     session_id |-> rtms_session_id(meeting_id),
     websocket |-> None, is_connected |-> FALSE,
     task |-> "created", cancel_requested |-> FALSE, retry_count |-> 0,
     stopped |-> FALSE]

\* what the garbage collector leaves of an RTMSSession object
Collected ==
    [meeting_id |-> "", meeting_topic |-> "", session_id |-> "",
     websocket |-> None, is_connected |-> FALSE,
     task |-> "collected", cancel_requested |-> FALSE, retry_count |-> 0,
     stopped |-> FALSE]

\* the task of the object has not ended
task_alive(stream) == stream.task \in {"created", "connecting", "receiving", "sleeping"}

\* An RTMSSession object is freed once nothing refers to it: it is not
\* registered, its task has ended and no call in flight holds it.
gc(strs, sessions, cs) ==
    [t \in 1..Len(strs) |->
        IF \/ task_alive(strs[t])
           \/ \E m \in DOMAIN sessions : sessions[m] = t
           \/ \E call \in BagToSet(cs) : call.session = t
        THEN strs[t] ELSE Collected]

\* stop_session(meeting_id) returns: the session objects of the meeting that
\* existed when the call began are those up to upto
stop_returned(strs, meeting_id, upto) ==
    [t \in 1..Len(strs) |->
        IF t <= upto /\ strs[t].meeting_id = meeting_id /\ task_alive(strs[t])
        THEN [strs[t] EXCEPT !.stopped = TRUE] ELSE strs[t]]

\* no other start or stop call for the meeting is in flight
alone(others, meeting_id) ==
    \A call \in BagToSet(others) : call.meeting_id # meeting_id

\* a start or stop call for the meeting is or was under way
disturbed(meeting_id) == undisturbed' = [undisturbed EXCEPT ![meeting_id] = FALSE]

\* start_session from "create the live session" to its return; others are the
\* other calls in flight
start_session_create(others, meeting_id, meeting_topic, strs) ==
    /\ live_transcription_service' =
           create_session(live_transcription_service, rtms_session_id(meeting_id),
                          meeting_id, meeting_topic)
    /\ rtms_sessions' = [rtms_sessions EXCEPT ![meeting_id] = Len(strs) + 1]
    /\ calls' = others
    /\ streams' = gc(Append(strs, new_stream(meeting_id, meeting_topic)),
                     rtms_sessions', others)
    /\ undisturbed' = [undisturbed EXCEPT ![meeting_id] = alone(others, meeting_id)]

\* stop_session at "del self._sessions[meeting_id]", and what follows it in the caller
stop_session_delete(others, op, meeting_id, meeting_topic, t, strs) ==
    IF rtms_sessions[meeting_id] = 0
    THEN \* KeyError: the call ends with the exception
         /\ calls' = others
         /\ streams' = gc(strs, rtms_sessions, others)
         /\ disturbed(meeting_id)
         /\ UNCHANGED <<rtms_sessions, live_transcription_service>>
    ELSE IF op = "start"
    THEN start_session_create(others, meeting_id, meeting_topic, strs)
    ELSE /\ rtms_sessions' = [rtms_sessions EXCEPT ![meeting_id] = 0]
         /\ calls' = others
         /\ streams' = gc(stop_returned(strs, meeting_id, t), rtms_sessions', others)
         /\ disturbed(meeting_id)
         /\ UNCHANGED live_transcription_service

\* stop_session from "if session.task and not session.task.done()" on
stop_session_cancel(others, op, meeting_id, meeting_topic, t, strs) ==
    IF ~task_done(strs[t])
    THEN \* task.cancel(); await session.task
         /\ streams' = [strs EXCEPT ![t].cancel_requested = TRUE]
         /\ calls' = others (+) SetToBag({Call(op, "await_task", meeting_id, meeting_topic, t)})
         /\ disturbed(meeting_id)
         /\ UNCHANGED <<rtms_sessions, live_transcription_service>>
    ELSE stop_session_delete(others, op, meeting_id, meeting_topic, t, strs)

\* stop_session from its first line, for the session object registered for the meeting
stop_session_begin(others, op, meeting_id, meeting_topic, strs) ==
    LET t == rtms_sessions[meeting_id]
    IN  IF strs[t].websocket = "open" /\ strs[t].is_connected
        THEN \* await session.websocket.close(): the close frame is sent and the
             \* call suspends until the connection has gone down
             /\ streams' = [strs EXCEPT ![t].websocket = "closed"]
             /\ calls' = others (+) SetToBag({Call(op, "closing", meeting_id, meeting_topic, t)})
             /\ disturbed(meeting_id)
             /\ UNCHANGED <<rtms_sessions, live_transcription_service>>
        ELSE \* no websocket, or close() of a connection that is closed already
             stop_session_cancel(others, op, meeting_id, meeting_topic, t, strs)

\* rtms_router.handle_rtms_started -> start_session, up to its first suspension
start_session(meeting_id, meeting_topic, stream_url) ==
    /\ Len(streams) + Cardinality({call \in BagToSet(calls) : call.op = "start"}) < MaxStreams
    /\ IF stream_url = ""
       THEN UNCHANGED <<rtmsVars, live_transcription_service>>
       ELSE IF rtms_sessions[meeting_id] # 0
       THEN stop_session_begin(calls, "start", meeting_id, meeting_topic, streams)
       ELSE start_session_create(calls, meeting_id, meeting_topic, streams)
    /\ BagCardinality(calls') <= MaxCalls
    /\ UNCHANGED <<uuid_count, received>>
    /\ UNCHANGED botVars

\* rtms_router.handle_rtms_stopped -> stop_session, up to its first suspension
stop_session(meeting_id) ==
    /\ IF rtms_sessions[meeting_id] = 0
       THEN /\ streams' = stop_returned(streams, meeting_id, Len(streams))
            /\ disturbed(meeting_id)
            /\ UNCHANGED <<rtms_sessions, calls, live_transcription_service>>
       ELSE stop_session_begin(calls, "stop", meeting_id, "", streams)
    /\ BagCardinality(calls') <= MaxCalls
    /\ UNCHANGED <<uuid_count, received>>
    /\ UNCHANGED botVars

\* await session.websocket.close() returned
stop_session_closed(call) ==
    /\ call.pc = "closing"
    /\ stop_session_cancel(calls (-) SetToBag({call}), call.op, call.meeting_id,
                           call.meeting_topic, call.session, streams)
    /\ UNCHANGED <<uuid_count, received>>
    /\ UNCHANGED botVars

\* await session.task returned (or raised CancelledError, which is swallowed)
stop_session_joined(call) ==
    /\ call.pc = "await_task"
    /\ task_done(streams[call.session])
    /\ stop_session_delete(calls (-) SetToBag({call}), call.op, call.meeting_id,
                           call.meeting_topic, call.session, streams)
    /\ UNCHANGED <<uuid_count, received>>
    /\ UNCHANGED botVars

(* ----------------------- the _run_session task ------------------------ *)
StreamIds == 1..Len(streams)

\* websockets.connect succeeded: the body of "async with" up to the receive loop
connected(stream) ==
    [stream EXCEPT !.websocket = "open", !.is_connected = TRUE, !.task = "receiving"]

\* a retry policy that backs off while retry_count <= max_retries
retry_after_failure_once_more(stream) ==
    IF stream.retry_count + 1 <= max_retries
    THEN [stream EXCEPT !.retry_count = @ + 1, !.task = "sleeping"]
    ELSE [stream EXCEPT !.retry_count = @ + 1, !.is_connected = FALSE, !.task = "returned"]

\* except ConnectionClosed / except Exception: count the failure, back off while
\* retry_count < max_retries, else leave the loop and clear is_connected
retry_after_failure(stream) ==
    IF stream.retry_count + 1 < max_retries
    THEN [stream EXCEPT !.retry_count = @ + 1, !.task = "sleeping"]
    ELSE [stream EXCEPT !.retry_count = @ + 1, !.is_connected = FALSE, !.task = "returned"]

\* CancelledError delivered to the task where it is suspended
cancelled(stream) ==
    CASE stream.task = "created" ->
             \* cancelled before its first step: the coroutine never runs
             [stream EXCEPT !.task = "cancelled"]
      [] stream.task = "connecting" ->
             \* except asyncio.CancelledError: break
             [stream EXCEPT !.is_connected = FALSE, !.task = "returned"]
      [] stream.task = "receiving" ->
             \* "async with" closes the connection, then break
             [stream EXCEPT !.websocket = "closed", !.is_connected = FALSE,
                            !.task = "returned"]
      [] OTHER ->
             \* raised inside an except clause by asyncio.sleep: not caught
             [stream EXCEPT !.task = "cancelled"]

\* first step of the task: retry_count = 0 and the first websockets.connect
rtms_task_start(t) ==
    /\ streams[t].task = "created"
    /\ ~streams[t].cancel_requested
    /\ streams' = [streams EXCEPT ![t].task = "connecting"]
    /\ UNCHANGED <<rtms_sessions, calls, undisturbed>>
    /\ UNCHANGED <<live_transcription_service, uuid_count, received>>
    /\ UNCHANGED botVars

\* websockets.connect returned (ok) or raised
rtms_connect(t, ok) ==
    /\ streams[t].task = "connecting"
    /\ ~streams[t].cancel_requested
    /\ streams' = gc([streams EXCEPT ![t] =
                          IF ok THEN connected(@)
                          ELSE retry_after_failure(@)], rtms_sessions, calls)
    /\ UNCHANGED <<rtms_sessions, calls, undisturbed>>
    /\ UNCHANGED <<live_transcription_service, uuid_count, received>>
    /\ UNCHANGED botVars

\* asyncio.sleep(2 ** retry_count) is over: next iteration of the while loop
rtms_wake(t) ==
    /\ streams[t].task = "sleeping"
    /\ ~streams[t].cancel_requested
    /\ streams' = [streams EXCEPT ![t].task = "connecting"]
    /\ UNCHANGED <<rtms_sessions, calls, undisturbed>>
    /\ UNCHANGED <<live_transcription_service, uuid_count, received>>
    /\ UNCHANGED botVars

\* the connection ended under the receive loop: clean = the iterator of the
\* websocket stopped (close handshake, ConnectionClosedOK), so _receive_loop
\* returned and the while loop goes on; otherwise ConnectionClosed was raised
rtms_connection_closed(t, clean) ==
    /\ streams[t].task = "receiving"
    /\ ~streams[t].cancel_requested
    /\ streams' = gc([streams EXCEPT ![t] =
                          IF clean THEN [@ EXCEPT !.websocket = "closed", !.task = "connecting"]
                          ELSE retry_after_failure([@ EXCEPT !.websocket = "closed"])],
                     rtms_sessions, calls)
    /\ UNCHANGED <<rtms_sessions, calls, undisturbed>>
    /\ UNCHANGED <<live_transcription_service, uuid_count, received>>
    /\ UNCHANGED botVars

\* the task resumes after task.cancel()
rtms_cancelled(t) ==
    /\ streams[t].cancel_requested
    /\ task_alive(streams[t])
    /\ streams' = gc([streams EXCEPT ![t] = cancelled(@)], rtms_sessions, calls)
    /\ UNCHANGED <<rtms_sessions, calls, undisturbed>>
    /\ UNCHANGED <<live_transcription_service, uuid_count, received>>
    /\ UNCHANGED botVars

\* Frames of the stream: type "binary" is a bytes message, "malformed" a text
\* message that is not JSON; participants is len(data["participants"]).
Frames ==
    {[type |-> "transcript", is_final |-> TRUE,  text |-> "hello", participants |-> 0],
     [type |-> "transcript", is_final |-> FALSE, text |-> "hel",   participants |-> 0],
     [type |-> "transcript", is_final |-> TRUE,  text |-> " ",     participants |-> 0],
     [type |-> "participant", is_final |-> TRUE, text |-> "join",  participants |-> 2],
     [type |-> "participant", is_final |-> TRUE, text |-> "leave", participants |-> 0],
     [type |-> "audio",     is_final |-> TRUE, text |-> "", participants |-> 0],
     [type |-> "pong",      is_final |-> TRUE, text |-> "", participants |-> 0],
     [type |-> "binary",    is_final |-> TRUE, text |-> "", participants |-> 0],
     [type |-> "malformed", is_final |-> TRUE, text |-> "", participants |-> 0]}

\* text.strip()
strip(text) == IF text = " " THEN "" ELSE text

\* a forwarding test that does not look at isFinal
forwards_interim(frame) == frame.type = "transcript" /\ strip(frame.text) # ""

\* _handle_transcript forwards the frame to add_segment
forwards(frame) == frame.type = "transcript" /\ frame.is_final /\ strip(frame.text) # ""

\* _handle_message: the live service after the frame
_handle_message(svc, uuid, session, frame, user_name) ==
    IF forwards(frame)
    THEN add_segment(svc, uuid, session.session_id, user_name, frame.text, None, "")
    ELSE IF frame.type = "participant" /\ frame.participants > 0
    THEN update_participant_count(svc, session.session_id, frame.participants)
    ELSE svc

\* _receive_loop: one message arrives and is handled
rtms_frame(t, frame, user_name) ==
    /\ streams[t].task = "receiving"
    /\ streams[t].websocket = "open"
    /\ ~streams[t].cancel_requested
    /\ forwards(frame) => uuid_count < MaxFrames
    /\ live_transcription_service' =
           _handle_message(live_transcription_service, uuid_count + 1, streams[t],
                           frame, user_name)
    /\ uuid_count' = IF forwards(frame)
                        /\ streams[t].session_id \in DOMAIN live_transcription_service.sessions
                     THEN uuid_count + 1 ELSE uuid_count
    /\ UNCHANGED received
    /\ UNCHANGED rtmsVars
    /\ UNCHANGED botVars

(* --------------------------- specifications --------------------------- *)
Init ==
    /\ live_transcription_service = [sessions |-> << >>, speaker_colors |-> << >>]
    /\ uuid_count = 0
    /\ bot_sessions = << >>
    /\ run_bot = [id \in BotIds |-> "none"]
    /\ containers = [id \in BotIds |-> "none"]
    /\ terminated = [id \in BotIds |-> "no"]
    /\ tbm_calls = [m \in MeetingIds |-> 0]
    /\ tbm_last = [m \in MeetingIds |-> 0]
    /\ direct_dispatch = FALSE
    /\ received = [ids |-> <<>>, last_count |-> 0]
    /\ rtms_sessions = [m \in RtmsMeetingIds |-> 0]
    /\ streams = <<>>
    /\ calls = EmptyBag
    /\ undisturbed = [m \in RtmsMeetingIds |-> FALSE]

\* references a client may post to /api/bot/dispatch
DispatchRefs == {BareId("111"), BareId("222"), BareId("")}
\* the password get_meeting_details reports for a meeting
DetailsPasswords == {"ab12"}
\* outcomes of "docker stop", one per session with a recorded container among ids
StopOutcomes(ids) ==
    {stop_ok \in [BotIds -> BOOLEAN] :
        \A k \in BotIds :
            (k \notin ids \/ k \notin DOMAIN bot_sessions \/ containers[k] # "running")
                => stop_ok[k]}

NextBot ==
    \/ \E m \in MeetingIds, details_ok \in BOOLEAN, pw \in DetailsPasswords,
          configured \in BOOLEAN, jwt_ok \in BOOLEAN :
           handle_meeting_started(m, details_ok, pw, configured, jwt_ok)
    \/ \E ref \in DispatchRefs, configured \in BOOLEAN, jwt_ok \in BOOLEAN :
           api_dispatch_bot(ref, None, configured, jwt_ok)
    \/ \E id \in BotIds : \E stop_ok \in StopOutcomes({id}) : terminate_bot(id, stop_ok)
    \/ \E m \in MeetingIds : \E stop_ok \in StopOutcomes(BotIds) :
           terminate_sessions_by_meeting_id(m, stop_ok)
    \/ \E id \in DOMAIN bot_sessions : run_bot_start(id)
    \/ \E id \in DOMAIN bot_sessions, spawned \in BOOLEAN : run_bot_exec(id, spawned)
    \/ \E id \in DOMAIN bot_sessions, returncode \in {0, 1} : run_bot_communicate(id, returncode)

SpecBot == Init /\ [][NextBot]_vars

\* the bot service driven by the Zoom webhook alone: meeting.started,
\* meeting.ended, terminate requests and the launch tasks
NextWebhook ==
    \/ \E m \in MeetingIds, details_ok \in BOOLEAN, pw \in DetailsPasswords,
          configured \in BOOLEAN, jwt_ok \in BOOLEAN :
           handle_meeting_started(m, details_ok, pw, configured, jwt_ok)
    \/ \E id \in BotIds : \E stop_ok \in StopOutcomes({id}) : terminate_bot(id, stop_ok)
    \/ \E m \in MeetingIds : \E stop_ok \in StopOutcomes(BotIds) :
           terminate_sessions_by_meeting_id(m, stop_ok)
    \/ \E id \in DOMAIN bot_sessions : run_bot_start(id)
    \/ \E id \in DOMAIN bot_sessions, spawned \in BOOLEAN : run_bot_exec(id, spawned)
    \/ \E id \in DOMAIN bot_sessions, returncode \in {0, 1} : run_bot_communicate(id, returncode)

SpecWebhook == Init /\ [][NextWebhook]_vars

Mappings == {<< >>, [k \in {"spk-1"} |-> "Alice"]}

NextLive ==
    \/ \E sid \in FreeSessionIds, m \in MeetingIds, topic \in Topics :
           init_session(sid, m, topic)
    \/ \E sid \in FreeSessionIds, speaker \in Speakers, speaker_id \in SpeakerIds \cup {None} :
           push_segment(sid, speaker, "hello", None, speaker_id)
    \/ \E limit \in Limits : poll_segments(limit)
    \/ \E sid \in FreeSessionIds : api_clear_session(sid)
    \/ \E sid \in FreeSessionIds, mapping \in Mappings : api_set_speaker_mapping(sid, mapping)

SpecLive == Init /\ [][NextLive]_vars

NextRtms ==
    \/ \E m \in RtmsMeetingIds, url \in StreamUrls : start_session(m, "Topic", url)
    \/ \E m \in RtmsMeetingIds : stop_session(m)
    \/ \E call \in BagToSet(calls) : stop_session_closed(call)
    \/ \E call \in BagToSet(calls) : stop_session_joined(call)
    \/ \E t \in StreamIds : rtms_task_start(t)
    \/ \E t \in StreamIds, ok \in BOOLEAN : rtms_connect(t, ok)
    \/ \E t \in StreamIds : rtms_wake(t)
    \/ \E t \in StreamIds, clean \in BOOLEAN : rtms_connection_closed(t, clean)
    \/ \E t \in StreamIds : rtms_cancelled(t)
    \/ \E t \in StreamIds, frame \in Frames : rtms_frame(t, frame, "Guest-1")

SpecRtms == Init /\ [][NextRtms]_vars

\* a meeting URL .../j/<path_id>?pwd=<pwd> (no query when pwd is None) whose
\* host contains "zoom.us" or not; the hosts have no digits
MeetingUrl(zoom_host, path_id, pwd) ==
    [zoom |-> zoom_host, jdigits |-> path_id, pwd |-> pwd,
     digits |-> IF pwd = "ab12" THEN path_id \o "12" ELSE path_id]

\* "https://zoom.us/j/555?pwd=ab12", "https://host/j/555?pwd=ab12",
\* "https://zoom.us/j/555"
UrlRefs ==
    {MeetingUrl(TRUE, "555", "ab12"), MeetingUrl(FALSE, "555", "ab12"),
     MeetingUrl(TRUE, "555", None)}

\* DispatchBotRequest.password: absent, empty, or a secret
RequestPasswords == {None, "", "xy"}

\* the dispatch endpoint called with meeting URLs and passwords
NextDispatch ==
    \E ref \in UrlRefs, password \in RequestPasswords, configured \in BOOLEAN,
       jwt_ok \in BOOLEAN :
        api_dispatch_bot(ref, password, configured, jwt_ok)

SpecDispatch == Init /\ [][NextDispatch]_vars

\* references posted to the dispatch endpoint: a meeting number, a text without
\* digits, and "https://zoom.us/my/room" (a Zoom URL without /j/<digits>)
LaunchRefs == {BareId("111"), BareId(""), MeetingUrl(TRUE, "", None)}

\* the dispatch endpoint, the terminate endpoint and the launch tasks
NextLaunch ==
    \/ \E ref \in LaunchRefs, configured \in BOOLEAN, jwt_ok \in BOOLEAN :
           api_dispatch_bot(ref, None, configured, jwt_ok)
    \/ \E id \in BotIds : \E stop_ok \in StopOutcomes({id}) : terminate_bot(id, stop_ok)
    \/ \E id \in DOMAIN bot_sessions : run_bot_start(id)
    \/ \E id \in DOMAIN bot_sessions, spawned \in BOOLEAN : run_bot_exec(id, spawned)
    \/ \E id \in DOMAIN bot_sessions, returncode \in {0, 1} : run_bot_communicate(id, returncode)

SpecLaunch == Init /\ [][NextLaunch]_vars

\* the launch tasks under a fair event loop: a task created by dispatch_bot is
\* run, and each of its awaits (create_subprocess_exec, communicate) returns
SpecLaunchFair ==
    /\ Init /\ [][NextLaunch]_vars
    /\ \A id \in BotIds :
           /\ WF_vars(run_bot_start(id))
           /\ WF_vars(\E spawned \in BOOLEAN : run_bot_exec(id, spawned))
           /\ WF_vars(\E returncode \in {0, 1} : run_bot_communicate(id, returncode))

\* the frames of type transcript
TranscriptFrames == {frame \in Frames : frame.type = "transcript"}

\* time of a pushed segment (PushSegmentRequest.time)
PushTime == "10:00"

\* the two producers of the live session of a stream: the stream is started and
\* restarted, its task connects and forwards transcript frames, and the push
\* endpoint is called for the same live session
NextProducers ==
    \/ \E m \in RtmsMeetingIds : start_session(m, "Topic", "wss://rtms")
    \/ \E call \in BagToSet(calls) : stop_session_closed(call)
    \/ \E call \in BagToSet(calls) : stop_session_joined(call)
    \/ \E t \in StreamIds : rtms_task_start(t)
    \/ \E t \in StreamIds : rtms_connect(t, TRUE)
    \/ \E t \in StreamIds : rtms_cancelled(t)
    \/ \E t \in StreamIds, frame \in TranscriptFrames : rtms_frame(t, frame, "Guest-1")
    \/ \E m \in RtmsMeetingIds, speaker_id \in SpeakerIds \cup {None} :
           push_segment(rtms_session_id(m), "Guest-1", "hello", PushTime, speaker_id)

SpecProducers == Init /\ [][NextProducers]_vars

\* a stream and the live session it feeds: the stream is started and restarted,
\* its task connects, fails, backs off, receives frames of every kind and loses
\* its connection, while the push and clear endpoints are called for the live
\* session of the stream
NextFrames ==
    \/ \E m \in RtmsMeetingIds : start_session(m, "Topic", "wss://rtms")
    \/ \E call \in BagToSet(calls) : stop_session_closed(call)
    \/ \E call \in BagToSet(calls) : stop_session_joined(call)
    \/ \E t \in StreamIds : rtms_task_start(t)
    \/ \E t \in StreamIds, ok \in BOOLEAN : rtms_connect(t, ok)
    \/ \E t \in StreamIds : rtms_wake(t)
    \/ \E t \in StreamIds, clean \in BOOLEAN : rtms_connection_closed(t, clean)
    \/ \E t \in StreamIds : rtms_cancelled(t)
    \/ \E t \in StreamIds, frame \in Frames : rtms_frame(t, frame, "Guest-1")
    \/ \E m \in RtmsMeetingIds :
           push_segment(rtms_session_id(m), "Guest-1", "hello", PushTime, None)
    \/ \E m \in RtmsMeetingIds : api_clear_session(rtms_session_id(m))

SpecFrames == Init /\ [][NextFrames]_vars

(* ------------------------------- claims ------------------------------- *)
\* the sessions of a meeting that are neither COMPLETED nor ERROR
NonTerminal(meeting_id) ==
    {id \in DOMAIN bot_sessions :
        bot_sessions[id].meeting_id = meeting_id /\ bot_sessions[id].status \notin TerminalStatuses}

\* C1: while every dispatch comes from the meeting-started handler, at most one
\* bot session of a meeting is in a non-terminal status.
C1_OneActiveSessionPerMeeting ==
    ~direct_dispatch => \A m \in MeetingIds : Cardinality(NonTerminal(m)) <= 1

\* C2: a bot session whose status is COMPLETED or ERROR keeps that status in
\* every later step.
C2_TerminalStatusIsFinal ==
    [][\A id \in DOMAIN bot_sessions :
          bot_sessions[id].status \in TerminalStatuses
              => bot_sessions'[id].status = bot_sessions[id].status]_vars

\* C3: the second of two terminate_sessions_by_meeting_id calls for a meeting
\* with no dispatch for the meeting between them returns 0.
C3_SecondTerminateByMeetingReturnsZero ==
    \A m \in MeetingIds : tbm_calls[m] = 2 => tbm_last[m] = 0

\* C4: once terminate_bot returned True for a session, having stopped its
\* container or found no container recorded, no container of the session runs.
C4_NoWorkerAfterTerminate ==
    \A id \in DOMAIN bot_sessions :
        terminated[id] \in {"stopped", "no_handle"} => containers[id] # "running"

\* C5: every stream task that is alive belongs to the RTMSSession registered
\* for its meeting, so at most one is alive per meeting.
C5_AliveTaskIsRegistered ==
    \A t \in StreamIds :
        task_alive(streams[t]) => rtms_sessions[streams[t].meeting_id] = t

IsPrefix(s, t) == Len(s) <= Len(t) /\ SubSeq(t, 1, Len(s)) = s

\* the live session ids the clear operation is never applied to
NeverCleared == {rtms_session_id(m) : m \in RtmsMeetingIds} \cup BotIds

\* C6: without a clear of the session, the segment sequence of a live session
\* before a step is a prefix of its segment sequence after the step.
C6_SegmentsOnlyGrow ==
    [][\A sid \in DOMAIN live_transcription_service.sessions \cap NeverCleared :
          /\ sid \in DOMAIN live_transcription_service'.sessions
          /\ IsPrefix(SeqIds(live_transcription_service.sessions[sid].segments),
                      SeqIds(live_transcription_service'.sessions[sid].segments))]_vars

\* the segments buffered for a live session
Buffered(sid) == live_transcription_service.sessions[sid].segments

\* C7: a consumer that polls with since_id = the id of the last segment it
\* received never receives a segment twice and receives segments in append
\* order (ids are drawn in append order); polling a session of n segments with
\* the id of the i-th and a limit above n returns exactly segments i+1 .. n.
C7_PollingNeverRepeats ==
    /\ \A i, j \in 1..Len(received.ids) : i < j => received.ids[i] < received.ids[j]
    /\ \A sid \in DOMAIN live_transcription_service.sessions :
           \A i \in 1..Len(Buffered(sid)) :
               get_segments(live_transcription_service, sid, Buffered(sid)[i].id, 100)
                   = SubSeq(Buffered(sid), i + 1, Len(Buffered(sid)))

\* C7 witness: the consumer received segments in at least two responses, the
\* last one asked for with a cursor, and the session holds a segment to poll from.
C7_PolledTwice ==
    /\ received.last_count > 0
    /\ Len(received.ids) > received.last_count
    /\ PolledSession \in DOMAIN live_transcription_service.sessions
    /\ Len(Buffered(PolledSession)) >= 2

\* C8: get_segments with the id of a buffered segment and a limit returns the
\* first limit segments that follow that segment, in order.
C8_LimitCountsFromCursor ==
    \A sid \in DOMAIN live_transcription_service.sessions :
        \A i \in 1..Len(Buffered(sid)), limit \in Limits :
            get_segments(live_transcription_service, sid, Buffered(sid)[i].id, limit)
                = SubSeq(Buffered(sid), i + 1, Min(i + limit, Len(Buffered(sid))))

\* no connection attempt of the task has succeeded: session.websocket is
\* assigned by every successful connect and by nothing else
NeverConnected(stream) == stream.task # "collected" /\ stream.websocket = None

\* the connection attempts of the task all failed (each failure adds one to
\* retry_count) and there were max_retries of them
Exhausted(stream) == NeverConnected(stream) /\ stream.retry_count = max_retries

\* C9: a stream task whose connection attempts all fail makes at most
\* max_retries (3) of them; after the last it has returned normally, the
\* session reports disconnected and, unless a start or stop call for the
\* meeting intervenes, stays registered.
C9_GivesUpAfterMaxRetries ==
    /\ \A t \in StreamIds :
           /\ NeverConnected(streams[t]) => streams[t].retry_count <= max_retries
           /\ Exhausted(streams[t]) =>
                  /\ streams[t].task = "returned"
                  /\ ~streams[t].is_connected
    /\ \A m \in RtmsMeetingIds :
           undisturbed[m] => /\ rtms_sessions[m] # 0
                             /\ streams[rtms_sessions[m]].task # "cancelled"

\* C9 witness: the session registered by an undisturbed start has exhausted its attempts.
C9_RegisteredAndExhausted ==
    \E m \in RtmsMeetingIds :
        /\ undisturbed[m]
        /\ rtms_sessions[m] # 0
        /\ Exhausted(streams[rtms_sessions[m]])

\* C10: a stream task that is connected (in its receive loop) has retry
\* counter zero.
C10_RetryCounterResetOnConnect ==
    \A t \in StreamIds : streams[t].task = "receiving" => streams[t].retry_count = 0

\* C11: a session record that a dispatch adds to the registry is PENDING when
\* the dispatch call ends, and its launch task has been created but has not run.
C11_DispatchedSessionIsPending ==
    [][\A id \in DOMAIN bot_sessions' \ DOMAIN bot_sessions :
          /\ bot_sessions'[id].status = PENDING
          /\ run_bot'[id] = "created"]_vars

\* the step is a terminate_sessions_by_meeting_id(m) call
IsTerminateByMeeting(m) ==
    /\ tbm_calls'[m] = Min(tbm_calls[m] + 1, 2)
    /\ run_bot' = run_bot
    /\ \E stop_ok \in StopOutcomes(BotIds) : terminate_sessions_by_meeting_id(m, stop_ok)

\* C12: a terminate_sessions_by_meeting_id(m) call leaves no session of m
\* active, returns the number of sessions of m that were active when it began,
\* and leaves the sessions of the other meetings as they were.
C12_TerminateByMeetingEndsTheMeeting ==
    [][\A m \in MeetingIds :
          IsTerminateByMeeting(m)
              => /\ \A id \in DOMAIN bot_sessions' :
                        bot_sessions'[id].meeting_id = m
                            => bot_sessions'[id].status \in TerminalStatuses
                 /\ tbm_last'[m] = Cardinality(NonTerminal(m))
                 /\ \A id \in DOMAIN bot_sessions :
                        bot_sessions[id].meeting_id # m => bot_sessions'[id] = bot_sessions[id]]_vars

\* C12 witness: a call for one meeting ended an active session there while
\* another meeting has an active session.
C12_OneMeetingEndedOtherActive ==
    \E m, other \in MeetingIds :
        /\ m # other
        /\ tbm_calls[m] >= 1
        /\ tbm_last[m] >= 1
        /\ NonTerminal(m) = {}
        /\ \E id \in DOMAIN bot_sessions : bot_sessions[id].meeting_id = m
        /\ NonTerminal(other) # {}

\* one forward step of the lifecycle
Forward(a, b) ==
    <<a, b>> \in {<<PENDING, JOINING>>, <<JOINING, IN_MEETING>>,
                  <<IN_MEETING, LEAVING>>, <<LEAVING, COMPLETED>>}

\* C13: every status change of a bot session is one forward step of
\* PENDING -> JOINING -> IN_MEETING -> LEAVING -> COMPLETED or a change to ERROR
\* (terminate_bot assigns LEAVING and then COMPLETED within one step, which
\* counts as the two changes a -> LEAVING -> COMPLETED).
C13_StatusChangesAreForwardSteps ==
    [][\A id \in DOMAIN bot_sessions :
          LET a == bot_sessions[id].status
              b == bot_sessions'[id].status
          IN  \/ a = b
              \/ b = ERROR
              \/ Forward(a, b)
              \/ Forward(a, LEAVING) /\ b = COMPLETED]_vars

\* C14: at most one bot session of a meeting is in a non-terminal status,
\* whoever issued the dispatches.
C14_OrchestratorKeepsOneActiveSession ==
    \A m \in MeetingIds : Cardinality(NonTerminal(m)) <= 1

\* C15: create_session on an id that exists, called with the meeting and topic
\* the session already has, leaves the service as it is.
C15_CreateOnExistingIdChangesNothing ==
    \A sid \in DOMAIN live_transcription_service.sessions :
        create_session(live_transcription_service, sid,
                       live_transcription_service.sessions[sid].meeting_id,
                       live_transcription_service.sessions[sid].meeting_topic)
            = live_transcription_service

\* speaker mappings a client may send, a key "" and an empty name included
AllMappings ==
    {<< >>, [k \in {"spk-1"} |-> "Alice"], [k \in {"spk-1"} |-> ""],
     [k \in {""} |-> "Alice"], [k \in {"spk-1", "spk-2"} |-> "Bob"]}

\* the segment has a raw speaker id and the mapping has it as a key
Remapped(segment, mapping) == segment.speaker_id # "" /\ segment.speaker_id \in DOMAIN mapping

\* C16: set_speaker_mapping on a known session replaces the mapping and gives
\* every segment whose speaker id is a key of the mapping the mapped name and its
\* initials; ids, order, text, colour and number of segments, the segments of
\* other speakers and everything else stay; on an unknown session it returns
\* False and changes nothing.
C16_RemappingRewritesNamesOnly ==
    \A sid \in FreeSessionIds, mapping \in AllMappings :
        LET svc == live_transcription_service
            after == set_speaker_mapping(svc, sid, mapping)
        IN  IF sid \notin DOMAIN svc.sessions
            THEN ~set_speaker_mapping_returns(svc, sid) /\ after = svc
            ELSE LET old == svc.sessions[sid].segments
                     new == after.sessions[sid].segments
                 IN  /\ set_speaker_mapping_returns(svc, sid)
                     /\ after.sessions[sid].speaker_mapping = mapping
                     /\ Len(new) = Len(old)
                     /\ \A i \in 1..Len(old) :
                            IF Remapped(old[i], mapping)
                            THEN new[i] = [old[i] EXCEPT
                                              !.speaker = mapping[old[i].speaker_id],
                                              !.initials = Prefix2(mapping[old[i].speaker_id])]
                            ELSE new[i] = old[i]
                     /\ after.speaker_colors = svc.speaker_colors
                     /\ after = [svc EXCEPT !.sessions[sid].speaker_mapping = mapping,
                                            !.sessions[sid].segments = new]

\* C16 witness: a session whose mapping names spk-1 holds a segment of spk-1
\* under the mapped name with initials of that name, and a segment without
\* speaker id under its raw name.
C16_MappedAndUnmappedSegments ==
    \E sid \in DOMAIN live_transcription_service.sessions :
        /\ live_transcription_service.sessions[sid].speaker_mapping = [k \in {"spk-1"} |-> "Alice"]
        /\ \E i, j \in 1..Len(Buffered(sid)) :
               /\ Buffered(sid)[i].speaker_id = "spk-1"
               /\ Buffered(sid)[i].speaker = "Alice"
               /\ Buffered(sid)[i].initials = "Al"
               /\ Buffered(sid)[j].speaker_id = ""
               /\ Buffered(sid)[j].speaker = "Guest-1"

\* C17: once stop_session for a meeting has returned, no task created for that
\* meeting before the call began appends a segment to the live session or
\* updates its participant count.
C17_StoppedTaskLeavesLiveSessionAlone ==
    [][\A t \in StreamIds, frame \in Frames :
          streams[t].stopped /\ rtms_frame(t, frame, "Guest-1")
              => live_transcription_service' = live_transcription_service]_vars

\* the step is an add_segment call of one of the two producers for the session
IsAddSegment(sid) ==
    /\ rtmsVars' = rtmsVars
    /\ \/ \E speaker_id \in SpeakerIds \cup {None} :
              push_segment(sid, "Guest-1", "hello", PushTime, speaker_id)
       \/ \E t \in StreamIds, frame \in TranscriptFrames :
              /\ forwards(frame)
              /\ streams[t].session_id = sid
              /\ rtms_frame(t, frame, "Guest-1")

\* the segments of the session before the step, none if it does not exist yet
SegmentsBefore(sid) ==
    IF sid \in DOMAIN live_transcription_service.sessions THEN Buffered(sid) ELSE << >>

\* the colour key of a segment: speaker_id or speaker
ColorKey(segment) == IF segment.speaker_id # "" THEN segment.speaker_id ELSE segment.speaker

\* C18: with the push endpoint and a stream task adding to one live session in
\* any interleaving, every add_segment call appends exactly one segment behind
\* those present, the segment ids of a session are pairwise distinct and follow
\* the order of the calls, and all segments of a speaker key carry the one
\* colour recorded for the key.
C18_ProducersAppendOneByOne ==
    [][\A m \in RtmsMeetingIds :
          LET sid == rtms_session_id(m)
          IN  IsAddSegment(sid) =>
                  LET new == live_transcription_service'.sessions[sid].segments
                      colors == live_transcription_service'.speaker_colors[sid]
                  IN  /\ Len(new) = Len(SegmentsBefore(sid)) + 1
                      /\ SubSeq(new, 1, Len(new) - 1) = SegmentsBefore(sid)
                      /\ new[Len(new)].id = uuid_count'
                      /\ \A i, j \in 1..Len(new) : i < j => new[i].id < new[j].id
                      /\ \A i \in 1..Len(new) :
                             /\ ColorKey(new[i]) \in DOMAIN colors
                             /\ new[i].color_class = colors[ColorKey(new[i])]]_vars

\* C18 witness: the live session of a stream holds a forwarded segment between
\* two pushed ones, all of the same speaker key.
C18_PushedForwardedPushed ==
    \E m \in RtmsMeetingIds :
        /\ rtms_session_id(m) \in DOMAIN live_transcription_service.sessions
        /\ LET segments == Buffered(rtms_session_id(m))
           IN  /\ Len(segments) = 3
               /\ segments[1].time = PushTime
               /\ segments[2].time = "now"
               /\ segments[3].time = PushTime
               /\ \A i \in 1..3 : ColorKey(segments[i]) = "Guest-1"

\* the sessions the step registers
Dispatched == {bot_sessions'[id] : id \in DOMAIN bot_sessions' \ DOMAIN bot_sessions}

\* C19: a dispatch of a URL with the meeting id in its path and a secret in its
\* pwd parameter, without explicit password, creates a session with that
\* meeting id and that secret, whatever the host of the URL.
C19_UrlGivesPathIdAndPwd ==
    [][\A ref \in UrlRefs, jwt_ok \in BOOLEAN :
          (ref.jdigits # "" /\ ref.pwd # None /\ api_dispatch_bot(ref, None, TRUE, jwt_ok))
              => \E session \in Dispatched :
                     /\ session.meeting_id = ref.jdigits
                     /\ session.meeting_password = ref.pwd]_vars

\* C20: a dispatch with an explicit password, any string, and a URL that has a
\* secret of its own creates a session whose password is the explicit one.
C20_ExplicitPasswordWins ==
    [][\A ref \in UrlRefs, password \in RequestPasswords \ {None}, jwt_ok \in BOOLEAN :
          (ref.zoom /\ ref.pwd # None /\ api_dispatch_bot(ref, password, TRUE, jwt_ok))
              => \E session \in Dispatched : session.meeting_password = password]_vars

\* C21: a dispatch whose reference yields no meeting id, or that is made while
\* the SDK credentials are not configured, raises to its caller and leaves the
\* registry as it was: no session is added or changed and no launch task is created.
C21_RejectedDispatchChangesNothing ==
    [][\A ref \in LaunchRefs, configured \in BOOLEAN, jwt_ok \in BOOLEAN :
          (/\ _parse_meeting_url(ref).meeting_id = "" \/ ~configured
           /\ api_dispatch_bot(ref, None, configured, jwt_ok))
              => /\ dispatch_bot_result(ref, configured, jwt_ok) # "session"
                 /\ bot_sessions' = bot_sessions
                 /\ run_bot' = run_bot
                 /\ containers' = containers]_vars

\* C21 witness: a rejected dispatch is a step that changes nothing, so the state
\* it leaves is the state it met: a registry that holds a PENDING session whose
\* launch task has not run yet and that would have taken another session.
C21_RejectedBesidePendingSession ==
    /\ Cardinality(DOMAIN bot_sessions) < MaxBots
    /\ \E id \in DOMAIN bot_sessions :
           bot_sessions[id].status = PENDING /\ run_bot[id] = "created"

\* the step is the launch task of the session failing to start the container:
\* create_subprocess_exec raises, or "docker run" ends with a return code # 0
IsLaunchFailure(id) == run_bot_exec(id, FALSE) \/ run_bot_communicate(id, 1)

\* C22: when the launch task fails to start the container, the task ends
\* without raising, and the session is still registered, in ERROR, with an error
\* message and without container id; no other session is touched.
C22_LaunchFailureIsRecorded ==
    [][\A id \in DOMAIN bot_sessions :
          IsLaunchFailure(id) =>
              /\ run_bot'[id] = "done"
              /\ id \in DOMAIN bot_sessions'
              /\ bot_sessions'[id].status = ERROR
              /\ bot_sessions'[id].error_message # None
              /\ bot_sessions'[id].container_id = None
              /\ \A k \in DOMAIN bot_sessions \ {id} : bot_sessions'[k] = bot_sessions[k]]_vars

\* C22 witness: a session whose launch task has ended is in ERROR with the
\* error output of "docker run" and no container id.
C22_SessionWithLaunchError ==
    \E id \in DOMAIN bot_sessions :
        /\ run_bot[id] = "done"
        /\ bot_sessions[id].status = ERROR
        /\ bot_sessions[id].error_message = "stderr"
        /\ bot_sessions[id].container_id = None

\* the sessions whose dispatch got no token from generate_jwt
JwtFailed == {id \in DOMAIN bot_sessions : bot_sessions[id].error_message = "jwt"}

\* C23: a dispatch with a parsed meeting id whose token generation fails leaves
\* a session in ERROR with an error message and without launch task; such a
\* session stays in the registry, never becomes JOINING, and no container is
\* ever started for it.
C23_JwtFailureLeavesErrorSession ==
    [][/\ \A ref \in LaunchRefs :
             (/\ _parse_meeting_url(ref).meeting_id # ""
              /\ api_dispatch_bot(ref, None, TRUE, FALSE))
                 => \E id \in DOMAIN bot_sessions' \ DOMAIN bot_sessions :
                        /\ bot_sessions'[id].status = ERROR
                        /\ bot_sessions'[id].error_message # None
                        /\ run_bot'[id] = "none"
       /\ \A id \in JwtFailed :
             /\ id \in DOMAIN bot_sessions'
             /\ bot_sessions'[id].error_message = "jwt"
             /\ bot_sessions'[id].status \in {ERROR, COMPLETED}
             /\ bot_sessions'[id].container_id = None
             /\ run_bot'[id] = "none"
             /\ containers'[id] = "none"]_vars

\* C23 witness: a session whose token generation failed has since been the
\* target of a terminate call, beside a session that was launched.
C23_JwtFailedSessionTerminated ==
    \E id \in JwtFailed, other \in DOMAIN bot_sessions :
        /\ terminated[id] = "no_handle"
        /\ run_bot[id] = "none"
        /\ containers[other] = "running"

UnmatchedIds(sid) ==
    {since \in 1..(MaxSegs + 1) : \A i \in 1..Len(Buffered(sid)) : Buffered(sid)[i].id # since}

\* C25: get_segments without since_id returns the last limit segments in append
\* order, or all of them when there are at most limit; with a since_id that
\* matches no segment it returns all segments of the session.
C25_NoCursorLastLimitUnmatchedCursorAll ==
    \A sid \in DOMAIN live_transcription_service.sessions, limit \in Limits :
        /\ get_segments(live_transcription_service, sid, NoId, limit)
               = SubSeq(Buffered(sid), Len(Buffered(sid)) - Min(limit, Len(Buffered(sid))) + 1,
                        Len(Buffered(sid)))
        /\ \A since \in UnmatchedIds(sid) :
               get_segments(live_transcription_service, sid, since, limit) = Buffered(sid)

\* the live session ids of the model: the free ones, those of streams, those of bots
LiveSessionIds == FreeSessionIds \cup {rtms_session_id(m) : m \in RtmsMeetingIds} \cup BotIds

\* C26: add_segment for a session id the service does not hold returns None and
\* leaves the service as it is: no session, no segment and no colour table
\* appears for the id.
C26_AddToUnknownSessionChangesNothing ==
    \A sid \in LiveSessionIds \ DOMAIN live_transcription_service.sessions :
        \A speaker \in Speakers, speaker_id \in SpeakerIds :
            LET after == add_segment(live_transcription_service, uuid_count + 1, sid,
                                     speaker, "hello", None, speaker_id)
            IN  /\ add_segment_returns(live_transcription_service, sid) = None
                /\ after = live_transcription_service
                /\ sid \notin DOMAIN after.sessions
                /\ sid \notin DOMAIN after.speaker_colors

\* C26 witness: the service holds a session with a segment and a colour, and an
\* id that has been in use (segments were pushed to both) is unknown to it.
C26_UnknownIdBesideKnownSession ==
    \E sid, other \in FreeSessionIds :
        /\ sid \notin DOMAIN live_transcription_service.sessions
        /\ sid \notin DOMAIN live_transcription_service.speaker_colors
        /\ other \in DOMAIN live_transcription_service.sessions
        /\ Len(Buffered(other)) >= 1
        /\ uuid_count > Len(Buffered(other))

\* C27: once set_speaker_mapping has stored a mapping, add_segment with a
\* speaker id that is a key of the mapping stores the mapped name as the
\* segment's speaker, whatever the name is, and otherwise the speaker it was
\* given; the segments of that speaker id already in the session show the same
\* name.
C27_NewSegmentsShowMappedName ==
    \A sid \in DOMAIN live_transcription_service.sessions, mapping \in AllMappings :
        \A speaker \in Speakers, speaker_id \in SpeakerIds \ {""} :
            LET mapped == set_speaker_mapping(live_transcription_service, sid, mapping)
                after == add_segment(mapped, uuid_count + 1, sid, speaker, "hello", None,
                                     speaker_id)
                segments == after.sessions[sid].segments
                added == segments[Len(segments)]
            IN  /\ added.speaker = IF speaker_id \in DOMAIN mapping THEN mapping[speaker_id]
                                   ELSE speaker
                /\ speaker_id \in DOMAIN mapping
                       => \A i \in 1..Len(segments) :
                              segments[i].speaker_id = speaker_id
                                  => segments[i].speaker = added.speaker

\* the colour table of a live session
ColorsOf(svc, sid) == svc.speaker_colors[sid]

\* C28: as long as a live session is not cleared, a speaker key keeps the colour
\* it was given, a key that appears as the k-th of the session is given entry
\* (k - 1) mod 6 of SPEAKER_COLORS, and every segment carries the colour of its key.
C28_ColourOfKeyIsStable ==
    [][\A sid \in DOMAIN live_transcription_service.sessions
                     \cap DOMAIN live_transcription_service'.sessions :
          LET before == ColorsOf(live_transcription_service, sid)
              after == ColorsOf(live_transcription_service', sid)
              segments == live_transcription_service'.sessions[sid].segments
          IN  /\ \A key \in DOMAIN before : key \in DOMAIN after /\ after[key] = before[key]
              /\ \A key \in DOMAIN after \ DOMAIN before :
                     after[key] = SPEAKER_COLORS[(Cardinality(DOMAIN before) % Len(SPEAKER_COLORS)) + 1]
              /\ \A i \in 1..Len(segments) :
                     /\ ColorKey(segments[i]) \in DOMAIN after
                     /\ segments[i].color_class = after[ColorKey(segments[i])]]_vars

\* C29: clear_session on a known id returns True and removes the session and
\* its colour table: the id is unknown afterwards, get_segments yields nothing
\* and add_segment is refused for it, and a session created under the id later
\* has no segments and gives its first speaker the first colour; on an unknown
\* id it returns False and changes nothing; the other sessions and their colour
\* tables are never changed.
C29_ClearRemovesSessionAndColours ==
    \A sid \in FreeSessionIds :
        LET svc == live_transcription_service
            after == clear_session(svc, sid)
            again == create_session(after, sid, "111", "Topic")
            first == add_segment(again, uuid_count + 1, sid, "Guest-1", "hello", None, "")
        IN  /\ \A k \in DOMAIN svc.sessions \ {sid} :
                   /\ k \in DOMAIN after.sessions /\ after.sessions[k] = svc.sessions[k]
                   /\ after.speaker_colors[k] = svc.speaker_colors[k]
            /\ IF sid \notin DOMAIN svc.sessions
               THEN ~clear_session_returns(svc, sid) /\ after = svc
               ELSE /\ clear_session_returns(svc, sid)
                    /\ DOMAIN after.sessions = DOMAIN svc.sessions \ {sid}
                    /\ DOMAIN after.speaker_colors = DOMAIN svc.speaker_colors \ {sid}
                    /\ \A limit \in Limits : get_segments(after, sid, NoId, limit) = << >>
                    /\ add_segment_returns(after, sid) = None
                    /\ add_segment(after, uuid_count + 1, sid, "Guest-1", "hello", None, "") = after
                    /\ again.sessions[sid].segments = << >>
                    /\ again.speaker_colors[sid] = << >>
                    /\ first.sessions[sid].segments[1].color_class = SPEAKER_COLORS[1]

\* C29 witness: a session was cleared and its id is in use again: the session
\* holds the third segment added and nothing else, its only colour is the first
\* of the palette, and no other session holds the two segments added before.
C29_ClearedAndCreatedAgain ==
    \E sid \in FreeSessionIds :
        /\ sid \in DOMAIN live_transcription_service.sessions
        /\ Len(Buffered(sid)) = 1
        /\ Buffered(sid)[1].id = 3
        /\ Buffered(sid)[1].color_class = SPEAKER_COLORS[1]
        /\ \A other \in DOMAIN live_transcription_service.sessions \ {sid} :
               Buffered(other) = << >>

\* the step is a call of the push endpoint for the session id
IsPush(sid) ==
    /\ uuid_count' = uuid_count + 1
    /\ \E speaker \in Speakers, speaker_id \in SpeakerIds \cup {None} :
           push_segment(sid, speaker, "hello", None, speaker_id)

\* C30: a push for a session id the service does not hold creates the session
\* and stores the segment in it; a push for a known id appends the segment and
\* leaves the session's meeting, topic, participant count, mapping, earlier
\* segments and colours as they are; either way a segment is stored, and the
\* other sessions are not changed.
C30_PushCreatesOrAppends ==
    [][\A sid \in FreeSessionIds :
          IsPush(sid) =>
              LET svc == live_transcription_service
                  new == live_transcription_service'.sessions[sid]
                  added == new.segments[Len(new.segments)]
              IN  /\ sid \in DOMAIN live_transcription_service'.sessions
                  /\ add_segment_returns(live_transcription_service', sid) = "segment"
                  /\ added.id = uuid_count'
                  /\ IF sid \in DOMAIN svc.sessions
                     THEN /\ new = [svc.sessions[sid] EXCEPT !.segments = Append(@, added)]
                          /\ \A key \in DOMAIN ColorsOf(svc, sid) :
                                 ColorsOf(live_transcription_service', sid)[key]
                                     = ColorsOf(svc, sid)[key]
                     ELSE new.segments = <<added>>
                  /\ \A k \in DOMAIN svc.sessions \ {sid} :
                         live_transcription_service'.sessions[k] = svc.sessions[k]]_vars

\* C30 witness: a session that a push created (its meeting is "unknown") holds
\* two pushed segments and a speaker mapping, which the second push has used
\* and left in place.
C30_PushCreatedThenAppended ==
    \E sid \in FreeSessionIds :
        /\ sid \in DOMAIN live_transcription_service.sessions
        /\ live_transcription_service.sessions[sid].meeting_id = "unknown"
        /\ live_transcription_service.sessions[sid].speaker_mapping # << >>
        /\ Len(Buffered(sid)) = 2
        /\ Buffered(sid)[1].speaker = "Guest-1" /\ Buffered(sid)[1].speaker_id = ""
        /\ Buffered(sid)[2].speaker = "Alice" /\ Buffered(sid)[2].speaker_id = "spk-1"

\* the step resumes a suspended stop_session call of the rtms_stopped handler
\* and runs it to its end
StopCallEnds(call) ==
    /\ call.op = "stop"
    /\ stop_session_closed(call) \/ stop_session_joined(call)
    /\ BagCardinality(calls') < BagCardinality(calls)

\* C31: a stop_session call that was suspended ends normally, with the meeting's
\* session still registered when it reaches "del self._sessions[meeting_id]"
\* and no session registered for the meeting afterwards, also when other start
\* or stop calls for the meeting ran while it was suspended.
C31_StopNeverFails ==
    [][\A call \in BagToSet(calls) :
          StopCallEnds(call) =>
              /\ rtms_sessions[call.meeting_id] # 0
              /\ rtms_sessions'[call.meeting_id] = 0]_vars

\* stop_session has been called for the session object: a call holding it is
\* suspended in close() or in "await session.task", or its task was cancelled
StopInvoked(t) ==
    \/ streams[t].cancel_requested
    \/ \E call \in BagToSet(calls) : call.session = t

\* C32: once stop_session has been called for a session, its task starts no
\* further websockets.connect, wherever the task was: connecting, in the
\* receive loop, or in the backoff sleep.
C32_NoConnectAfterStop ==
    [][\A t \in StreamIds :
          (StopInvoked(t) /\ streams[t].task # "connecting")
              => streams'[t].task # "connecting"]_vars

\* the frames the forwarder drops: interim transcripts, audio, unrecognized
\* types, binary and non-parseable messages
DroppedFrames ==
    {frame \in Frames :
        \/ frame.type = "transcript" /\ ~frame.is_final
        \/ frame.type \in {"audio", "pong", "binary", "malformed"}}

\* C33: handling a non-final transcript frame, an audio frame, a binary frame,
\* a frame of unrecognized type or a non-parseable frame in the receive loop
\* leaves the live service as it was, and the step that handles it leaves the
\* stream in the receive loop on its open connection with the same retry count
C33_DroppedFramesChangeNothing ==
    [][\A t \in StreamIds, frame \in DroppedFrames :
          (streams[t].task = "receiving" /\ streams[t].websocket = "open") =>
              /\ _handle_message(live_transcription_service, uuid_count + 1,
                                 streams[t], frame, "Guest-1")
                     = live_transcription_service
              /\ rtms_frame(t, frame, "Guest-1") =>
                     /\ live_transcription_service' = live_transcription_service
                     /\ streams'[t].task = "receiving"
                     /\ streams'[t].websocket = "open"
                     /\ streams'[t].retry_count = streams[t].retry_count]_vars

\* a stream that has retried is in the receive loop on an open connection and
\* its live session holds a forwarded segment
C33_ReceivingAfterRetry ==
    \E t \in StreamIds :
        /\ streams[t].task = "receiving"
        /\ streams[t].websocket = "open"
        /\ ~streams[t].cancel_requested
        /\ streams[t].retry_count > 0
        /\ streams[t].session_id \in DOMAIN live_transcription_service.sessions
        /\ Len(live_transcription_service.sessions[streams[t].session_id].segments) > 0

\* C34: after a participant join or leave frame is handled, the participant
\* count of the stream's live session is the length of the frame's participant
\* list, the empty list included
C34_CountIsListLength ==
    \A t \in StreamIds, frame \in Frames :
        (/\ frame.type = "participant"
         /\ streams[t].task = "receiving"
         /\ streams[t].websocket = "open"
         /\ streams[t].session_id \in DOMAIN live_transcription_service.sessions)
        => _handle_message(live_transcription_service, uuid_count + 1, streams[t],
                           frame, "Guest-1"
               ).sessions[streams[t].session_id].participant_count
           = frame.participants

\* the segments of a live session of svc, none when the session is unknown
SegmentsOf(svc, sid) ==
    IF sid \in DOMAIN svc.sessions THEN svc.sessions[sid].segments ELSE << >>

\* C35: while a stream session is registered and its task is in the receive
\* loop, every transcript frame marked final appends exactly one segment, with
\* the frame's text, to the end of the live session "rtms-" + meeting id,
\* whatever other operations ran on that live session before
C35_FinalFramesForwarded ==
    \A t \in StreamIds, frame \in Frames :
        (/\ frame.type = "transcript" /\ frame.is_final
         /\ streams[t].task = "receiving"
         /\ streams[t].websocket = "open"
         /\ ~streams[t].cancel_requested
         /\ rtms_sessions[streams[t].meeting_id] = t)
        => LET sid == rtms_session_id(streams[t].meeting_id)
               before == SegmentsOf(live_transcription_service, sid)
               after == SegmentsOf(_handle_message(live_transcription_service,
                                       uuid_count + 1, streams[t], frame, "Guest-1"),
                                   sid)
           IN  /\ Len(after) = Len(before) + 1
               /\ IsPrefix(before, after)
               /\ after[Len(after)].text = frame.text

\* the ids of the segments the polling consumer has not received yet: those
\* buffered after its cursor, or all of them when the cursor is not in the buffer
Pending ==
    LET all == IF PolledSession \in DOMAIN live_transcription_service.sessions
               THEN Buffered(PolledSession) ELSE << >>
        found == found_index(all, cursor)
    IN  IF cursor # NoId /\ found >= 0
        THEN SubSeq(SeqIds(all), found + 2, Len(all))
        ELSE SeqIds(all)

\* C36: every response to the consumer that polls with since_id = the id of
\* the last segment it received starts at the first segment it has not
\* received and continues without a gap, whatever the limit and however many
\* segments were appended since the previous poll
C36_PollerMissesNothing ==
    [][\A limit \in Limits :
          (poll_segments(limit) /\ received' # received) =>
              IsPrefix(SubSeq(received'.ids, Len(received.ids) + 1, Len(received'.ids)),
                       Pending)]_vars

\* C37: in every state a bot session in IN_MEETING has a container id, a bot
\* session in ERROR has an error message, and a bot session in PENDING or
\* JOINING has neither a container id nor an error message
C37_StatusMatchesFields ==
    \A id \in DOMAIN bot_sessions :
        LET session == bot_sessions[id]
        IN  /\ session.status = IN_MEETING => session.container_id # None
            /\ session.status = ERROR => session.error_message # None
            /\ session.status \in {PENDING, JOINING} =>
                   session.container_id = None /\ session.error_message = None

\* the registry holds a session in IN_MEETING and one in ERROR after a failed
\* launch
C37_EveryStatusSeen ==
    /\ \E id \in DOMAIN bot_sessions : bot_sessions[id].status = IN_MEETING
    /\ \E id \in DOMAIN bot_sessions :
           bot_sessions[id].status = ERROR /\ run_bot[id] = "done"

\* the bot session is registered and in PENDING or JOINING
InFlight(id) ==
    id \in DOMAIN bot_sessions /\ bot_sessions[id].status \in {PENDING, JOINING}

\* the bot session is registered and in IN_MEETING, ERROR or COMPLETED
Settled(id) ==
    id \in DOMAIN bot_sessions /\ bot_sessions[id].status \in {IN_MEETING, ERROR, COMPLETED}

\* C38: when the launch tasks are scheduled fairly and the process launcher
\* returns, every bot session that is in PENDING or JOINING later is in
\* IN_MEETING, ERROR or COMPLETED: no session stays in PENDING or JOINING forever
C38_SessionsSettle ==
    \A id \in BotIds : InFlight(id) ~> Settled(id)

\* a launch task ran to its end and left its session in IN_MEETING while
\* another session is still waiting for its task
C38_OneSettledOneInFlight ==
    \E id, other \in DOMAIN bot_sessions :
        /\ run_bot[id] = "done" /\ bot_sessions[id].status = IN_MEETING
        /\ run_bot[other] = "created" /\ bot_sessions[other].status = PENDING

\* C39: a registered stream session that no stop is at work on reports
\* is_connected only while its connection is open: not after the connection
\* closed, not during a backoff sleep and not during a connection attempt
C39_ConnectedMeansOpen ==
    \A m \in RtmsMeetingIds :
        (rtms_sessions[m] # 0 /\ ~StopInvoked(rtms_sessions[m])) =>
            LET session == streams[rtms_sessions[m]]
            IN  session.is_connected =>
                    session.websocket = "open" /\ session.task = "receiving"

\* C40: when the connection of a task in the receive loop ends and no stop was
\* called for the session, the task counts a retry and either backs off or,
\* with the retries used up, returns: it never goes straight to a new
\* connection attempt with its retry count unchanged
C40_ReconnectCountsAndBacksOff ==
    [][\A t \in StreamIds :
          (/\ streams[t].task = "receiving"
           /\ ~StopInvoked(t)
           /\ streams'[t].task \notin {"receiving", "collected"}
           /\ ~streams'[t].cancel_requested)
          => /\ streams'[t].retry_count = streams[t].retry_count + 1
             /\ streams'[t].task \in {"sleeping", "returned"}]_vars
====
